---- MODULE Spec2Model ----
(***************************************************************************)
(* NFe XML -> Excel converter (src/main.py, the CLI; src/gui.py, the GUI). *)
(*                                                                         *)
(* Python strings are modelled as sequences of one-character strings, so   *)
(* that str.split, str.replace, the extension match and the string order   *)
(* are computed, not assumed.  A value of a parsed document (what          *)
(* xmltodict.parse returns) is a tagged record:                            *)
(*    [t |-> "null"]            None (an element with no content)          *)
(*    [t |-> "str", v |-> s]    a text or attribute value                  *)
(*    [t |-> "map", v |-> f]    a dict, f a function from keys to values   *)
(*    [t |-> "list"]            a list (a repeated element)                *)
(* and [t |-> "raise"] stands for an exception leaving the evaluated code. *)
(***************************************************************************)
EXTENDS Integers, Sequences, FiniteSets, TLC

VARIABLES
    pc,          \* position of the modelled run
    g_tree,      \* _get: argument d
    g_path,      \* _get: argument path (dotted)
    g_default,   \* _get: argument default
    g_result,    \* _get: returned value
    xml_path,    \* parse_nfe_file: argument (a path, a sequence of parts)
    content,     \* what xmltodict.parse makes of the file at xml_path
    outcome,     \* parse_nfe_file: record, None or exception
    mode,        \* "cli" (main.py main), "gui" (gui.py App._worker) or
                 \* "folder" (gui.py parse_folder with a progress callback)
    xmls,        \* the candidate list of the run, files [path, content]
    i,           \* number of completed loop iterations
    records,     \* parse_folder / _worker: records
    errors,      \* parse_folder / _worker: errors
    writes,      \* number of calls of df.to_excel
    table,       \* the table handed to df.to_excel
    events,      \* history of the run: progress calls, extractions, writes
    platform,    \* "posix" or "windows": decides pathlib's glob matching
    entries,     \* directory entries under the scanned root; the files given
                 \* to the worker
    scanned,     \* iter_xml_files(root)
    selected_files, \* App.selected_files, a list of paths
    widget_state,   \* the state option of every widget that has one
    prog,           \* what the progress bar and its label show
    after_queue,    \* the updates scheduled by self.after(0, _update)
    finishing       \* workers between the two halves of their finally block

vars == <<pc, g_tree, g_path, g_default, g_result, xml_path, content, outcome,
          mode, xmls, i, records, errors, writes, table, events,
          platform, entries, scanned,
          selected_files, widget_state, prog, after_queue, finishing>>

getVars == <<g_tree, g_path, g_default, g_result>>
exVars == <<xml_path, content, outcome>>
batchVars == <<mode, xmls, i, records, errors, writes, table, events>>
scanVars == <<platform, entries, scanned>>
guiVars == <<selected_files, widget_state, prog, after_queue, finishing>>

(***************************************************************************)
(* Bounds of the model.                                                    *)
(***************************************************************************)
MaxDepth == 2        \* nesting depth of the trees given to _get
MaxPathLen == 4      \* characters of a dotted path given to _get
MaxIdLen == 6        \* characters of an @Id attribute value
MaxFiles == 3        \* candidates of one run

(***************************************************************************)
(* Values.                                                                 *)
(***************************************************************************)
Null == [t |-> "null"]
Str(s) == [t |-> "str", v |-> s]
Map(f) == [t |-> "map", v |-> f]
List == [t |-> "list"]
Raise == [t |-> "raise"]
EmptyStr == Str(<<>>)
EmptyDict == Map([k \in {} |-> Null])

\* isinstance(x, dict)
IsDict(x) == x.t = "map"

\* Python truth value of a document value: None, "", {} are false.
Truthy(x) ==
    CASE x.t = "null" -> FALSE
      [] x.t = "str" -> Len(x.v) > 0
      [] x.t = "map" -> DOMAIN x.v # {}
      [] OTHER -> TRUE

\* xml_path.name
PathName(p) == p[Len(p)]

\* x or {}
OrEmptyDict(x) == IF Truthy(x) THEN x ELSE EmptyDict

\* code points of the characters the model uses
CharCode(c) ==
    CASE c = "." -> 46 [] c = "/" -> 47
      [] c = "1" -> 49 [] c = "2" -> 50
      [] c = "@" -> 64
      [] c = "F" -> 70 [] c = "L" -> 76 [] c = "M" -> 77 [] c = "N" -> 78
      [] c = "X" -> 88
      [] c = "a" -> 97 [] c = "b" -> 98 [] c = "d" -> 100 [] c = "e" -> 101
      [] c = "f" -> 102 [] c = "l" -> 108 [] c = "m" -> 109 [] c = "n" -> 110
      [] c = "t" -> 116 [] c = "x" -> 120
      [] OTHER -> 0

\* s < t for Python str: lexicographic by code point, a proper prefix first
RECURSIVE StrLess(_, _)
StrLess(s, u) ==
    IF u = <<>> THEN FALSE
    ELSE IF s = <<>> THEN TRUE
    ELSE IF Head(s) # Head(u) THEN CharCode(Head(s)) < CharCode(Head(u))
    ELSE StrLess(Tail(s), Tail(u))

\* all sequences over S of length at most n
RECURSIVE SeqsUpTo(_, _)
SeqsUpTo(S, n) ==
    IF n = 0 THEN {<<>>}
    ELSE LET shorter == SeqsUpTo(S, n - 1)
         IN  shorter \cup {Append(s, c) : s \in shorter, c \in S}

(***************************************************************************)
(* str.split(sep) for a one-character separator: the segments between the  *)
(* separators, at least one, empty segments kept.                          *)
(***************************************************************************)
RECURSIVE SplitFrom(_, _, _, _)
SplitFrom(s, sep, k, cur) ==
    IF k > Len(s) THEN <<cur>>
    ELSE IF s[k] = sep THEN <<cur>> \o SplitFrom(s, sep, k + 1, <<>>)
    ELSE SplitFrom(s, sep, k + 1, Append(cur, s[k]))

Split(s, sep) == SplitFrom(s, sep, 1, <<>>)

(***************************************************************************)
(* _get(d, path, default): the loop over path.split(".").                  *)
(***************************************************************************)
\* the loop body without the isinstance test: "part in cur" is a TypeError
\* on None, a substring test on a str, and cur[part] a TypeError on a str
RECURSIVE GetLoopNoTypeTest(_, _, _, _)
GetLoopNoTypeTest(cur, parts, k, default) ==
    IF k > Len(parts) THEN cur
    ELSE IF cur.t \in {"null", "str"} THEN Raise
    ELSE IF cur.t = "list" THEN default
    ELSE IF parts[k] \notin DOMAIN cur.v THEN default
    ELSE GetLoopNoTypeTest(cur.v[parts[k]], parts, k + 1, default)

RECURSIVE GetLoop(_, _, _, _)
GetLoop(cur, parts, k, default) ==
    IF k > Len(parts) THEN cur
    ELSE IF ~IsDict(cur) \/ parts[k] \notin DOMAIN cur.v THEN default
    ELSE GetLoop(cur.v[parts[k]], parts, k + 1, default)

\* faulty variants of _get: without the type test; first segment only
_get_no_type_test(d, path, default) ==
    GetLoopNoTypeTest(d, Split(path, "."), 1, default)

_get_first_segment(d, path, default) ==
    LET parts == Split(path, ".")
    IN  IF ~IsDict(d) \/ parts[1] \notin DOMAIN d.v THEN default
        ELSE d.v[parts[1]]

_get(d, path, default) == GetLoop(d, Split(path, "."), 1, default)

(***************************************************************************)
(* Inputs of _get: trees of bounded depth over the keys "a" and "b", the   *)
(* subtree under "b" a leaf; dotted paths over a, b and the separator.     *)
(***************************************************************************)
GetKeys == {<<"a">>, <<"b">>}
Leaves == {Null, Str(<<"x">>), List}

RECURSIVE Trees(_)
Trees(n) ==
    IF n = 0 THEN Leaves
    ELSE LET sub == Trees(n - 1)
         IN  Leaves
             \cup {EmptyDict}
             \cup {Map([k \in {<<"a">>} |-> x]) : x \in sub}
             \cup {Map([k \in {<<"b">>} |-> y]) : y \in Leaves}
             \cup {Map([k \in GetKeys |-> IF k = <<"a">> THEN x ELSE y]) :
                      x \in sub, y \in Leaves}

GetPaths == SeqsUpTo({"a", "b", "."}, MaxPathLen)
GetDefaults == {Null, Str(<<"d">>)}

(***************************************************************************)
(* String literals of the code.                                            *)
(***************************************************************************)
k_nfeProc == <<"n", "f", "e", "P", "r", "o", "c">>
k_NFe == <<"N", "F", "e">>
k_infNFe == <<"i", "n", "f", "N", "F", "e">>
k_Id == <<"@", "I", "d">>
k_emit == <<"e", "m", "i", "t">>
k_dest == <<"d", "e", "s", "t">>
k_xNome == <<"x", "N", "o", "m", "e">>
k_enderDest == <<"e", "n", "d", "e", "r", "D", "e", "s", "t">>
k_enderEmit == <<"e", "n", "d", "e", "r", "E", "m", "i", "t">>
k_xLgr == <<"x", "L", "g", "r">>
k_nro == <<"n", "r", "o">>
k_xBairro == <<"x", "B", "a", "i", "r", "r", "o">>
k_xMun == <<"x", "M", "u", "n">>
k_UF == <<"U", "F">>
k_CEP == <<"C", "E", "P">>
k_xPais == <<"x", "P", "a", "i", "s">>

Dot(a, b) == a \o <<".">> \o b

p_nfeProc_NFe_infNFe == Dot(k_nfeProc, Dot(k_NFe, k_infNFe))
p_NFe_infNFe == Dot(k_NFe, k_infNFe)
p_emit_xNome == Dot(k_emit, k_xNome)
p_dest_xNome == Dot(k_dest, k_xNome)
p_dest_enderDest == Dot(k_dest, k_enderDest)
p_emit_enderEmit == Dot(k_emit, k_enderEmit)

\* the seven address columns and the sub-key each is read from
AddressColumns ==
    <<"dest_street", "dest_number", "dest_district", "dest_city",
      "dest_state", "dest_zip", "dest_country">>
AddressKeys == <<k_xLgr, k_nro, k_xBairro, k_xMun, k_UF, k_CEP, k_xPais>>

(***************************************************************************)
(* str.replace(old, ""): every non-overlapping occurrence, left to right.  *)
(***************************************************************************)
OccursAt(s, old, k) ==
    /\ k + Len(old) - 1 <= Len(s)
    /\ SubSeq(s, k, k + Len(old) - 1) = old

RECURSIVE RemoveFrom(_, _, _)
RemoveFrom(s, old, k) ==
    IF k > Len(s) THEN <<>>
    ELSE IF OccursAt(s, old, k) THEN RemoveFrom(s, old, k + Len(old))
    ELSE <<s[k]>> \o RemoveFrom(s, old, k + 1)

\* faulty variants: only a leading token is removed; only the first occurrence
RECURSIVE RemoveFirstFrom(_, _, _)
RemoveFirstFrom(s, old, k) ==
    IF k > Len(s) THEN <<>>
    ELSE IF OccursAt(s, old, k) THEN SubSeq(s, k + Len(old), Len(s))
    ELSE <<s[k]>> \o RemoveFirstFrom(s, old, k + 1)

StrRemovePrefix(s, old) ==
    IF OccursAt(s, old, 1) THEN SubSeq(s, Len(old) + 1, Len(s)) ELSE s

StrRemoveFirst(s, old) == RemoveFirstFrom(s, old, 1)

StrRemove(s, old) == RemoveFrom(s, old, 1)

(***************************************************************************)
(* parse_nfe_file                                                          *)
(***************************************************************************)
\* xmltodict.parse(f) inside the try: an exception for a file that is not
\* well-formed XML, else the tree
ParseXml(c) == IF c.t = "garbage" THEN Raise ELSE c

\* key = note_id.replace("NFe", "") if note_id else ""
KeyOf(note_id) ==
    IF ~Truthy(note_id) THEN EmptyStr
    ELSE IF note_id.t = "str" THEN Str(StrRemove(note_id.v, k_NFe))
    ELSE Raise

\* end.get(k, ""): AttributeError when end is a str or a list
DictGet(end, k) ==
    IF ~IsDict(end) THEN Raise
    ELSE IF k \in DOMAIN end.v THEN end.v[k]
    ELSE EmptyStr

\* the dict display {"dest_street": end.get("xLgr", ""), ...}
AddressFrom(end) == [n \in 1..7 |-> DictGet(end, AddressKeys[n])]

\* any(address.values())
AnyValue(address) == \E n \in 1..7 : Truthy(address[n])

\* faulty variant: the fallback to the issuer address is taken per field
AddressOfPerField(inf) ==
    LET end == OrEmptyDict(_get(inf, p_dest_enderDest, EmptyDict))
        end_emit == OrEmptyDict(_get(inf, p_emit_enderEmit, EmptyDict))
    IN  IF ~IsDict(end) \/ ~IsDict(end_emit) THEN Raise
        ELSE [n \in 1..7 |->
                 IF Truthy(DictGet(end, AddressKeys[n]))
                 THEN DictGet(end, AddressKeys[n])
                 ELSE DictGet(end_emit, AddressKeys[n])]

\* lines 107-130: the address of the record, or the exception raised
AddressOf(inf) ==
    LET end == OrEmptyDict(_get(inf, p_dest_enderDest, EmptyDict))
    IN  IF ~IsDict(end) THEN Raise
        ELSE IF AnyValue(AddressFrom(end)) THEN AddressFrom(end)
        ELSE LET end_emit == OrEmptyDict(_get(inf, p_emit_enderEmit, EmptyDict))
             IN  IF ~IsDict(end_emit) THEN Raise
                 ELSE AddressFrom(end_emit)

Record(key, note_id, issuer_name, recipient_name, address, file_name) ==
    [t |-> "rec",
     v |-> [key |-> key, note_id |-> note_id,
            issuer_name |-> issuer_name, recipient_name |-> recipient_name,
            dest_street |-> address[1], dest_number |-> address[2],
            dest_district |-> address[3], dest_city |-> address[4],
            dest_state |-> address[5], dest_zip |-> address[6],
            dest_country |-> address[7], file_name |-> file_name]]

\* faulty variants of the header lookup: no second path; the second path first
HeaderOfNoFallback(data) == _get(data, p_nfeProc_NFe_infNFe, Null)

HeaderOfBareFirst(data) ==
    LET inf == _get(data, p_NFe_infNFe, Null)
    IN  IF ~IsDict(inf) THEN _get(data, k_infNFe, Null) ELSE inf

\* lines 91-94: the header block, or a value that is not a dict
HeaderOf(data) ==
    LET inf == _get(data, p_nfeProc_NFe_infNFe, Null)
    IN  IF ~IsDict(inf) THEN _get(data, p_NFe_infNFe, Null) ELSE inf

\* lines 99-140, for a header block that is a dict
RecordOf(inf, name) ==
    LET note_id == _get(inf, k_Id, EmptyStr)
        key == KeyOf(note_id)
        issuer_name == _get(inf, p_emit_xNome, EmptyStr)
        recipient_name == _get(inf, p_dest_xNome, EmptyStr)
        address == AddressOf(inf)
    IN  IF key = Raise \/ address = Raise THEN Raise
        ELSE Record(key, note_id, issuer_name, recipient_name, address, Str(name))

\* a file is [path |-> xml_path, content |-> what its bytes parse to]
parse_nfe_file(f) ==
    LET data == ParseXml(f.content)
    IN  IF data = Raise THEN Null
        ELSE LET inf == HeaderOf(data)
             IN  IF ~IsDict(inf) THEN Null
                 ELSE RecordOf(inf, PathName(f.path))

(***************************************************************************)
(* Paths, the scan of a directory and sorted().  A path is the sequence of *)
(* its parts; a directory entry is [path, isfile, content].  pathlib       *)
(* matches and compares the parts as written on POSIX and case-folded on   *)
(* Windows.                                                                *)
(***************************************************************************)
Lower(c) ==
    CASE c = "F" -> "f" [] c = "L" -> "l" [] c = "M" -> "m"
      [] c = "N" -> "n" [] c = "X" -> "x"
      [] OTHER -> c

FoldCase(str, os) ==
    IF os = "windows" THEN [n \in 1..Len(str) |-> Lower(str[n])] ELSE str

\* p < q for two paths: the tuples of parts compared part by part
RECURSIVE PartsLess(_, _, _)
PartsLess(p, q, os) ==
    IF q = <<>> THEN FALSE
    ELSE IF p = <<>> THEN TRUE
    ELSE IF FoldCase(Head(p), os) # FoldCase(Head(q), os)
         THEN StrLess(FoldCase(Head(p), os), FoldCase(Head(q), os))
    ELSE PartsLess(Tail(p), Tail(q), os)

\* sorted(...) of a collection of distinct paths: the least first
RECURSIVE SortedPaths(_, _)
SortedPaths(ents, os) ==
    IF ents = {} THEN <<>>
    ELSE LET least == CHOOSE x \in ents :
                 \A y \in ents \ {x} : PartsLess(x.path, y.path, os)
         IN  <<least>> \o SortedPaths(ents \ {least}, os)

\* the pattern *.xml against a name
ext_xml == <<".", "x", "m", "l">>

MatchesXml(name, os) ==
    /\ Len(name) >= Len(ext_xml)
    /\ FoldCase(SubSeq(name, Len(name) - Len(ext_xml) + 1, Len(name)), os)
           = ext_xml

\* sorted([p for p in root.glob("**/*.xml") if p.is_file()])
iter_xml_files(ents, os) ==
    SortedPaths({e \in ents : MatchesXml(PathName(e.path), os) /\ e.isfile}, os)

\* gui.py _worker: sorted([p for p in files if p.exists() and p.is_file()])
worker_files(ents, os) == SortedPaths({e \in ents : e.isfile}, os)

(***************************************************************************)
(* Documents: what xmltodict.parse returns for the files of the model.  An *)
(* element with children or attributes is a mapping (never an empty one),  *)
(* an element without content is None, a repeated element is a list.  A    *)
(* document has one root element.                                          *)
(***************************************************************************)
Absent == [t |-> "absent"]
Garbage == [t |-> "garbage"]

\* the mapping of the pairs <<key, value>> whose value is not Absent; None
\* when there is none
MapFrom(pairs) ==
    LET present == {n \in DOMAIN pairs : pairs[n][2] # Absent}
    IN  IF present = {} THEN Null
        ELSE Map([k \in {pairs[n][1] : n \in present} |->
                     pairs[CHOOSE n \in present : pairs[n][1] = k][2]])

\* values of an address block (enderDest, enderEmit); c marks whose it is
AddrBlocks(c) ==
    { Absent, Null, Str(<<c, "t">>), List,
      MapFrom(<< <<k_xLgr, Str(<<c, "1">>)>> >>),
      MapFrom(<< <<k_xLgr, Null>> >>),
      MapFrom(<< <<k_xMun, Str(<<c, "m">>)>>, <<k_UF, Null>> >>),
      MapFrom(<< <<k_xLgr, MapFrom(<< <<k_Id, Str(<<"1">>)>> >>)>> >>),
      MapFrom(<< <<k_xLgr, Str(<<c, "1">>)>>, <<k_nro, Str(<<c, "2">>)>>,
                 <<k_xBairro, Str(<<c, "b">>)>>, <<k_xMun, Str(<<c, "m">>)>>,
                 <<k_UF, Str(<<c, "F">>)>>, <<k_CEP, Str(<<c, "L">>)>>,
                 <<k_xPais, Str(<<c, "X">>)>> >>) }

\* values of emit.xNome and of dest.xNome
EmitNames == { Absent, Str(<<"e", "N">>), MapFrom(<< <<k_Id, Str(<<"1">>)>> >>) }
DestNames == { Absent, Null, Str(<<"d", "N">>) }

\* values of the attribute Id, always a text
IdValues == { Absent, EmptyStr, Str(<<"N", "F", "e", "1">>) }
AllIdValues == { Str(s) : s \in SeqsUpTo({"N", "F", "e", "1"}, MaxIdLen) }

\* the header block infNFe
Inf(id, emit_name, emit_addr, dest_name, dest_addr) ==
    MapFrom(<< <<k_Id, id>>,
               <<k_emit, MapFrom(<< <<k_xNome, emit_name>>,
                                    <<k_enderEmit, emit_addr>> >>)>>,
               <<k_dest, MapFrom(<< <<k_xNome, dest_name>>,
                                    <<k_enderDest, dest_addr>> >>)>> >>)

\* the two document shapes
Wrapped(inf) ==
    MapFrom(<< <<k_nfeProc,
                 MapFrom(<< <<k_NFe, MapFrom(<< <<k_infNFe, inf>> >>)>> >>)>> >>)
Bare(inf) == MapFrom(<< <<k_NFe, MapFrom(<< <<k_infNFe, inf>> >>)>> >>)

StructInfs ==
    { Inf(id, en, ea, dn, da) :
        id \in IdValues, en \in EmitNames, ea \in AddrBlocks("e"),
        dn \in DestNames, da \in AddrBlocks("d") }
IdInfs == { Inf(id, Absent, Absent, Absent, Absent) : id \in AllIdValues }
NonHeaders == { Null, Str(<<"t">>), List }

ExDocs ==
    {Garbage}
    \cup { MapFrom(<< <<k_xNome, x>> >>) : x \in NonHeaders }
    \cup { MapFrom(<< <<k_nfeProc, x>> >>) : x \in NonHeaders }
    \cup { MapFrom(<< <<k_NFe, x>> >>) : x \in NonHeaders }
    \cup { Wrapped(x) : x \in NonHeaders \cup StructInfs }
    \cup { Bare(x) : x \in NonHeaders \cup StructInfs \cup IdInfs }

\* paths of files: directory parts and the name
n_a_xml == <<"a", ".", "x", "m", "l">>
n_b_xml == <<"b", ".", "x", "m", "l">>
ExPaths == { << <<"d">>, n_a_xml >>, << <<"d">>, <<"e">>, n_b_xml >> }

(***************************************************************************)
(* The window of the GUI (gui.py App._build_ui): the widgets, their Tk     *)
(* classes and their parents.  "self" is the App frame.                    *)
(***************************************************************************)
Widget(name, class, parent) == [name |-> name, class |-> class, parent |-> parent]

WidgetTree ==
    { Widget("grp_paths", "LabelFrame", "self"),
      Widget("lbl_in", "Label", "grp_paths"),
      Widget("ent_in", "Entry", "grp_paths"),
      Widget("btn_in", "Button", "grp_paths"),
      Widget("lbl_out", "Label", "grp_paths"),
      Widget("ent_out", "Entry", "grp_paths"),
      Widget("btn_out", "Button", "grp_paths"),
      Widget("btns", "Frame", "grp_paths"),
      Widget("lbl_select", "Label", "btns"),
      Widget("btn_select", "Button", "btns"),
      Widget("btn_clear", "Button", "btns"),
      Widget("grp_sel", "LabelFrame", "self"),
      Widget("listbox", "Listbox", "grp_sel"),
      Widget("yscroll2", "Scrollbar", "grp_sel"),
      Widget("grp_opts", "LabelFrame", "self"),
      Widget("chk_verbose", "Checkbutton", "grp_opts"),
      Widget("bar", "Frame", "self"),
      Widget("btn_run", "Button", "bar"),
      Widget("prog", "Progressbar", "bar"),
      Widget("lbl_prog", "Label", "bar"),
      Widget("grp_log", "LabelFrame", "self"),
      Widget("txt", "Text", "grp_log"),
      Widget("yscroll", "Scrollbar", "grp_log") }

winfo_children(w) == { x \in WidgetTree : x.parent = w }

\* configure(state=...) raises TclError, which _set_state_recursive ignores,
\* on the classes that have no state option
HasStateOption(class) ==
    class \in {"Label", "Entry", "Button", "Checkbutton", "Listbox", "Text"}

StatefulWidgets == { x.name : x \in { y \in WidgetTree : HasStateOption(y.class) } }

\* the window as built: every widget in its normal state
AllNormal == [w \in StatefulWidgets |-> "normal"]

\* _set_state_recursive: the widgets whose state is configured, the widget
\* and, when it is a frame, everything below it
RECURSIVE _set_state_recursive(_)
_set_state_recursive(widget) ==
    {widget.name} \cup
        (IF widget.class \in {"Frame", "LabelFrame"}
         THEN UNION { _set_state_recursive(child) :
                          child \in winfo_children(widget.name) }
         ELSE {})

\* _lock_ui: every widget below the App frame gets the state, then the log
\* box is set to normal
_lock_ui(ws, busy) ==
    LET state == IF busy THEN "disabled" ELSE "normal"
        reached == UNION { _set_state_recursive(child) :
                               child \in winfo_children("self") }
    IN  [w \in DOMAIN ws |->
            IF w = "txt" THEN "normal"
            ELSE IF w \in reached THEN state ELSE ws[w]]

\* a widget in the disabled state does not run its command
Enabled(w) == widget_state[w] = "normal"

t_Idle == <<"I", "d", "l", "e">>

\* str(n) of the numbers of a run
Digit(n) == <<"0", "1", "2", "3", "4", "5", "6", "7", "8", "9">>[n + 1]

Min(a, b) == IF a < b THEN a ELSE b
Max(a, b) == IF a < b THEN b ELSE a

\* the closure _update of _set_progress(cur, tot, text)
Update(cur, tot, text) ==
    [maximum |-> Max(tot, 1), value |-> Min(cur, tot), text |-> text]

\* _set_progress: the update is scheduled, the main loop runs it later
_set_progress(queue, cur, tot, text) == Append(queue, Update(cur, tot, text))

\* the character U+2014 (an em dash), written in ASCII
em_dash == "--"

\* the worker's on_progress: the text is cur, "/", tot, " ", U+2014, " ", name
on_progress(queue, cur, tot, name) ==
    _set_progress(queue, cur, tot,
                  <<Digit(cur), "/", Digit(tot), " ", em_dash, " ">> \o name)

\* the bar and the label as built: no maximum or value given, text "Idle"
ProgAsBuilt == [maximum |-> 100, value |-> 0, text |-> t_Idle]

(***************************************************************************)
(* Values of the variables a specification does not use.                   *)
(***************************************************************************)
GetIdle ==
    /\ g_tree = Null /\ g_path = <<>> /\ g_default = Null /\ g_result = Null
ExIdle ==
    /\ xml_path = <<>> /\ content = Null /\ outcome = Null
BatchIdle ==
    /\ mode = "none" /\ xmls = <<>> /\ i = 0 /\ records = <<>> /\ errors = <<>>
    /\ writes = 0 /\ table = <<>> /\ events = <<>>
ScanIdle ==
    /\ platform = "none" /\ entries = {} /\ scanned = <<>>
GuiIdle ==
    /\ selected_files = <<>> /\ widget_state = AllNormal /\ prog = ProgAsBuilt
    /\ after_queue = <<>> /\ finishing = 0

(***************************************************************************)
(* SpecGet: one call of _get on any tree, dotted path and default of the   *)
(* bounded sets.                                                           *)
(***************************************************************************)
InitGet ==
    /\ pc = "get_call"
    /\ g_tree \in Trees(MaxDepth)
    /\ g_path \in GetPaths
    /\ g_default \in GetDefaults
    /\ g_result = Null
    /\ ExIdle /\ BatchIdle /\ ScanIdle /\ GuiIdle

GetCall ==
    /\ pc = "get_call"
    /\ g_result' = _get(g_tree, g_path, g_default)
    /\ pc' = IF g_result' = Raise THEN "get_raised" ELSE "get_returned"
    /\ UNCHANGED <<g_tree, g_path, g_default, exVars, batchVars, scanVars,
                   guiVars>>

NextGet == GetCall

SpecGet == InitGet /\ [][NextGet]_vars

----------------------------------------------------------------------------
(* C10 *)

\* the segments of a dotted path, stated without the scan: the text between
\* one separator (or the start) and the next separator (or the end)
SepPositions(path) == {k \in 1..Len(path) : path[k] = "."}

SepBound(path, n) ==
    IF n = 0 THEN 0
    ELSE IF n > Cardinality(SepPositions(path)) THEN Len(path) + 1
    ELSE CHOOSE k \in SepPositions(path) :
             Cardinality({j \in SepPositions(path) : j < k}) = n - 1

Segments(path) ==
    [n \in 1..(Cardinality(SepPositions(path)) + 1) |->
        SubSeq(path, SepBound(path, n - 1) + 1, SepBound(path, n) - 1)]

\* the value stored at the end of a path of segments, from the last segment
\* back; Missing when a step meets a value that is not a mapping or a key
\* that is absent
Missing == [t |-> "missing"]

RECURSIVE ValueAt(_, _)
ValueAt(tree, segs) ==
    IF segs = <<>> THEN tree
    ELSE LET parent == ValueAt(tree, SubSeq(segs, 1, Len(segs) - 1))
             last == segs[Len(segs)]
         IN  IF parent = Missing THEN Missing
             ELSE IF parent.t # "map" THEN Missing
             ELSE IF last \notin DOMAIN parent.v THEN Missing
             ELSE parent.v[last]

\* C10: _get is total.  For every tree, dotted path and default, the call
\* returns (no exception); it returns the default when some step of the path
\* meets a value that is not a mapping or a key that is absent, and the value
\* stored at the end of the path otherwise.
C10_GetTotal ==
    pc # "get_call" =>
        /\ pc = "get_returned"
        /\ g_result # Raise
        /\ g_result = IF ValueAt(g_tree, Segments(g_path)) = Missing
                      THEN g_default
                      ELSE ValueAt(g_tree, Segments(g_path))

\* C10 witness: a path of two segments whose first segment leads to a text
\* value, not a mapping, and the call has returned the default
C10_Witness ==
    /\ pc = "get_returned"
    /\ g_path = <<"a", ".", "b">>
    /\ g_tree.t = "map"
    /\ <<"a">> \in DOMAIN g_tree.v
    /\ g_tree.v[<<"a">>].t = "str"
    /\ g_result = g_default
    /\ g_default = Str(<<"d">>)

\* C10 witness of the other case: the path resolves and the stored value,
\* which is not the default, is returned
C10_WitnessResolved ==
    /\ pc = "get_returned"
    /\ g_path = <<"a", ".", "a">>
    /\ ValueAt(g_tree, <<<<"a">>, <<"a">>>>) = List
    /\ g_result = List

(***************************************************************************)
(* SpecExtract: one call of parse_nfe_file on any document of ExDocs.      *)
(***************************************************************************)
InitExtract ==
    /\ pc = "ex_call"
    /\ xml_path \in ExPaths
    /\ content \in ExDocs
    /\ outcome = Null
    /\ GetIdle /\ BatchIdle /\ ScanIdle /\ GuiIdle

ExtractCall ==
    /\ pc = "ex_call"
    /\ outcome' = parse_nfe_file([path |-> xml_path, content |-> content])
    /\ pc' = IF outcome' = Raise THEN "ex_raised" ELSE "ex_returned"
    /\ UNCHANGED <<xml_path, content, getVars, batchVars, scanVars, guiVars>>

NextExtract == ExtractCall

SpecExtract == InitExtract /\ [][NextExtract]_vars

----------------------------------------------------------------------------
(* C4, C5, C6, C7: the record of one document *)

\* the header block of a document read off the tree: the mapping at
\* nfeProc.NFe.infNFe, else the mapping at NFe.infNFe, else Missing
DocHeader(c) ==
    LET h1 == ValueAt(c, <<k_nfeProc, k_NFe, k_infNFe>>)
        h2 == ValueAt(c, <<k_NFe, k_infNFe>>)
    IN  IF h1 # Missing /\ h1.t = "map" THEN h1
        ELSE IF h2 # Missing /\ h2.t = "map" THEN h2
        ELSE Missing

\* the seven values an address block holds: the value of each sub-key, the
\* empty string for a sub-key that is absent or when there is no block
BlockValues(inf, segs) ==
    LET block == ValueAt(inf, segs)
    IN  [n \in 1..7 |->
            IF block = Missing \/ block.t # "map" THEN EmptyStr
            ELSE IF AddressKeys[n] \in DOMAIN block.v THEN block.v[AddressKeys[n]]
            ELSE EmptyStr]

\* an empty value: no content (None) or the empty string
IsEmptyValue(x) == x = Null \/ x = EmptyStr
AllEmpty(vals) == \A n \in 1..7 : IsEmptyValue(vals[n])

RecordAddress(r) ==
    [n \in 1..7 |-> r[AddressColumns[n]]]

\* C4: in every record the seven address fields are the seven values of the
\* recipient block dest.enderDest, or the seven values of the issuer block
\* emit.enderEmit, the issuer block exactly when all seven values of the
\* recipient block are empty; and when both blocks yield nothing the seven
\* fields are seven empty strings.
C4_AddressAllOrNothing ==
    (pc = "ex_returned" /\ outcome.t = "rec") =>
        LET inf == DocHeader(content)
            fromDest == BlockValues(inf, <<k_dest, k_enderDest>>)
            fromEmit == BlockValues(inf, <<k_emit, k_enderEmit>>)
            address == RecordAddress(outcome.v)
        IN  /\ address = IF AllEmpty(fromDest) THEN fromEmit ELSE fromDest
            /\ (AllEmpty(fromDest) /\ AllEmpty(fromEmit))
                   => address = [n \in 1..7 |-> EmptyStr]

\* the part of C4 that does not depend on the representation of an empty
\* field: the address is one block's seven values, never a mix
C4_NeverAMix ==
    (pc = "ex_returned" /\ outcome.t = "rec") =>
        LET inf == DocHeader(content)
            fromDest == BlockValues(inf, <<k_dest, k_enderDest>>)
            fromEmit == BlockValues(inf, <<k_emit, k_enderEmit>>)
        IN  RecordAddress(outcome.v) =
                IF AllEmpty(fromDest) THEN fromEmit ELSE fromDest

\* the text s without the characters of any occurrence of old, stated by
\* positions (an occurrence of "NFe" cannot overlap another)
KeptPositions(s, old) ==
    {q \in 1..Len(s) :
        ~\E k \in 1..Len(s) : OccursAt(s, old, k) /\ k <= q /\ q < k + Len(old)}

WithoutToken(s, old) ==
    LET kept == KeptPositions(s, old)
    IN  [n \in 1..Cardinality(kept) |->
            s[CHOOSE q \in kept : Cardinality({r \in kept : r < q}) = n - 1]]

\* the attribute Id of the header block, the empty text when there is none
DocId(c) ==
    LET id == ValueAt(DocHeader(c), <<k_Id>>)
    IN  IF id = Missing THEN <<>> ELSE id.v

\* C5: in every record note_id is the attribute Id of the header block
\* (empty when absent) and key is note_id without the characters of any
\* occurrence of the token NFe, wherever and however often it occurs; an
\* empty note_id gives an empty key.
C5_KeyIsIdWithoutToken ==
    (pc = "ex_returned" /\ outcome.t = "rec") =>
        /\ outcome.v.note_id = Str(DocId(content))
        /\ outcome.v.key = Str(WithoutToken(DocId(content), k_NFe))
        /\ (DocId(content) = <<>> => outcome.v.key = EmptyStr)

\* C5 witness: the token occurs twice and both occurrences are removed
C5_Witness ==
    /\ pc = "ex_returned"
    /\ outcome.t = "rec"
    /\ outcome.v.note_id = Str(<<"N", "F", "e", "N", "F", "e">>)
    /\ outcome.v.key = EmptyStr

\* C5 witness: the token occurs once, not at the start
C5_WitnessInside ==
    /\ pc = "ex_returned"
    /\ outcome.t = "rec"
    /\ outcome.v.note_id = Str(<<"1", "N", "F", "e", "1">>)
    /\ outcome.v.key = Str(<<"1", "1">>)

RecordColumns ==
    {"key", "note_id", "issuer_name", "recipient_name", "dest_street",
     "dest_number", "dest_district", "dest_city", "dest_state", "dest_zip",
     "dest_country", "file_name"}

\* C6: every field of every record is a string, never null and never a
\* nested mapping.
C6_AllFieldsStrings ==
    (pc = "ex_returned" /\ outcome.t = "rec") =>
        \A col \in RecordColumns : outcome.v[col].t = "str"

\* C7: the document is a failure exactly when neither nfeProc.NFe.infNFe nor
\* NFe.infNFe holds a mapping; otherwise the record is made from the first
\* of the two that holds one; and a document with the header under
\* nfeProc.NFe.infNFe gives what the document with the same header under
\* NFe.infNFe and the same file name gives.
C7_HeaderShapes ==
    pc # "ex_call" =>
        LET h == DocHeader(content)
            wrapped == ValueAt(content, <<k_nfeProc, k_NFe, k_infNFe>>)
        IN  /\ (outcome = Null) <=> (h = Missing)
            /\ h # Missing => outcome = RecordOf(h, PathName(xml_path))
            /\ (wrapped # Missing /\ wrapped.t = "map") =>
                   outcome = parse_nfe_file([path |-> xml_path,
                                             content |-> Bare(wrapped)])

\* C7 witness: the header is under NFe.infNFe only and a record is returned
C7_Witness ==
    /\ pc = "ex_returned"
    /\ ValueAt(content, <<k_nfeProc>>) = Missing
    /\ ValueAt(content, <<k_NFe, k_infNFe>>) # Missing
    /\ ValueAt(content, <<k_NFe, k_infNFe>>).t = "map"
    /\ outcome.t = "rec"
    /\ outcome.v.key = Str(<<"1">>)

\* C7 witness: the header is under nfeProc.NFe.infNFe and a record is returned
C7_WitnessWrapped ==
    /\ pc = "ex_returned"
    /\ ValueAt(content, <<k_nfeProc, k_NFe, k_infNFe>>) # Missing
    /\ ValueAt(content, <<k_nfeProc, k_NFe, k_infNFe>>).t = "map"
    /\ outcome.t = "rec"
    /\ outcome.v.key = Str(<<"1">>)

\* C7 witness: the first path holds a text, not a mapping: a failure
C7_WitnessNotMapping ==
    /\ pc = "ex_returned"
    /\ ValueAt(content, <<k_nfeProc, k_NFe, k_infNFe>>) = Str(<<"t">>)
    /\ outcome = Null

(***************************************************************************)
(* SpecScan: one call of iter_xml_files on a directory tree, on either     *)
(* platform.                                                               *)
(***************************************************************************)
n_a_XML == <<"a", ".", "X", "M", "L">>
n_b_Xml == <<"b", ".", "X", "m", "l">>
n_a_txt == <<"a", ".", "t", "x", "t">>
n_m_xml == <<"m", ".", "x", "m", "l">>

Entry(path, isfile) == [path |-> path, isfile |-> isfile, content |-> Null]

ScanPool ==
    { Entry(<< <<"d">>, n_a_xml >>, TRUE),
      Entry(<< <<"d">>, n_a_XML >>, TRUE),
      Entry(<< <<"d">>, n_b_Xml >>, TRUE),
      Entry(<< <<"d">>, n_a_txt >>, TRUE),
      Entry(<< <<"d">>, n_m_xml >>, FALSE),
      Entry(<< <<"d">>, <<"e">> >>, FALSE),
      Entry(<< <<"d">>, <<"e">>, n_a_xml >>, TRUE),
      Entry(<< <<"d">>, <<"e">>, n_b_xml >>, TRUE) }

\* a file system holds no two entries of the same name; on Windows names
\* that differ by case only are the same name
DistinctNames(ents, os) ==
    \A x, y \in ents :
        x # y => [n \in 1..Len(x.path) |-> FoldCase(x.path[n], os)]
                     # [n \in 1..Len(y.path) |-> FoldCase(y.path[n], os)]

InitScan ==
    /\ pc = "scan_call"
    /\ platform \in {"posix", "windows"}
    /\ entries \in SUBSET ScanPool
    /\ DistinctNames(entries, platform)
    /\ scanned = <<>>
    /\ GetIdle /\ ExIdle /\ GuiIdle
    /\ mode = "none" /\ xmls = <<>> /\ i = 0 /\ records = <<>> /\ errors = <<>>
    /\ writes = 0 /\ table = <<>> /\ events = <<>>

ScanCall ==
    /\ pc = "scan_call"
    /\ scanned' = iter_xml_files(entries, platform)
    /\ pc' = "scan_returned"
    /\ UNCHANGED <<platform, entries, getVars, exVars, batchVars, guiVars>>

NextScan == ScanCall

SpecScan == InitScan /\ [][NextScan]_vars

----------------------------------------------------------------------------
(* C8 *)

\* the extension of a name, lower-cased: the text from the last "."
HasXmlExtension(name) ==
    /\ Len(name) >= 4
    /\ name[Len(name) - 3] = "."
    /\ Lower(name[Len(name) - 2]) = "x"
    /\ Lower(name[Len(name) - 1]) = "m"
    /\ Lower(name[Len(name)]) = "l"

\* C8: the scan returns exactly the regular files under the root, at any
\* depth, whose extension is xml in any letter case, in ascending order of
\* the full path and without duplicates.
C8_ScanCaseInsensitiveSorted ==
    pc = "scan_returned" =>
        /\ {scanned[n] : n \in 1..Len(scanned)}
               = {e \in entries : e.isfile /\ HasXmlExtension(PathName(e.path))}
        /\ \A n, m \in 1..Len(scanned) :
               n < m => PartsLess(scanned[n].path, scanned[m].path, platform)

\* what holds on every platform: regular files only, the lower-case
\* extension always found, ascending, no duplicates
C8_ScanSortedRegularFiles ==
    pc = "scan_returned" =>
        /\ {scanned[n] : n \in 1..Len(scanned)}
               \subseteq {e \in entries : e.isfile /\ HasXmlExtension(PathName(e.path))}
        /\ \A e \in entries :
               (e.isfile /\ Len(PathName(e.path)) >= 4
                   /\ SubSeq(PathName(e.path), Len(PathName(e.path)) - 3,
                             Len(PathName(e.path))) = ext_xml)
                   => \E n \in 1..Len(scanned) : scanned[n] = e
        /\ \A n, m \in 1..Len(scanned) :
               n < m => PartsLess(scanned[n].path, scanned[m].path, platform)

(***************************************************************************)
(* DataFrame(records)[cols].sort_values(by=["key", "file_name"],           *)
(* na_position="last"): rows ordered by key, then file_name, as Python     *)
(* strings; only a missing value (None, NaN) goes last.  Rows equal in     *)
(* both columns keep their order.                                          *)
(***************************************************************************)
\* a < b for two cells of a sorted column
CellLess(a, b) ==
    IF a.t = "null" THEN FALSE
    ELSE IF b.t = "null" THEN TRUE
    ELSE StrLess(a.v, b.v)

RowLess(r, q) ==
    \/ CellLess(r.key, q.key)
    \/ r.key = q.key /\ CellLess(r.file_name, q.file_name)

\* rows, sorted, with r put after the rows that are not greater than r
InsertRow(rows, r) ==
    LET greater == {n \in 1..Len(rows) : RowLess(r, rows[n])}
        at == IF greater = {} THEN Len(rows) + 1
              ELSE CHOOSE n \in greater : \A m \in greater : n <= m
    IN  SubSeq(rows, 1, at - 1) \o <<r>> \o SubSeq(rows, at, Len(rows))

RECURSIVE SortValues(_)
SortValues(rows) ==
    IF rows = <<>> THEN <<>>
    ELSE InsertRow(SortValues(SubSeq(rows, 1, Len(rows) - 1)), rows[Len(rows)])

(***************************************************************************)
(* SpecBatch: one run, of the CLI (main, parse_folder), of the GUI worker   *)
(* (App._worker) or of gui.py parse_folder with a progress callback: the   *)
(* candidate list, one loop iteration per candidate, then the table and    *)
(* the writer.                                                             *)
(***************************************************************************)
\* the candidates' contents
BatchDocs ==
    { Garbage,
      MapFrom(<< <<k_xNome, Null>> >>),
      Wrapped(Inf(Str(<<"N", "F", "e", "2">>), Str(<<"e", "N">>), Absent,
                  Absent, Absent)),
      Bare(Inf(Str(<<"N", "F", "e", "1">>), Absent, Absent, Str(<<"d", "N">>),
               MapFrom(<< <<k_xMun, Str(<<"d", "m">>)>> >>))),
      Bare(Inf(Absent, Str(<<"e", "N">>), Absent, Absent, Absent)),
      Bare(Inf(Str(<<"N", "F", "e", "1">>), Absent, Absent, Absent,
               Str(<<"d", "t">>))),
      Bare(Inf(Str(<<"N", "F", "e", "1">>), Absent, List, Absent,
               MapFrom(<< <<k_xLgr, Str(<<"d", "1">>)>> >>))) }

BatchPaths ==
    { << <<"d">>, n_a_xml >>, << <<"d">>, n_b_xml >>,
      << <<"d">>, <<"e">>, n_a_xml >>, << <<"d">>, <<"e">>, n_b_xml >> }

\* the regular files of a run: at most MaxFiles paths, each with a content
BatchFiles ==
    UNION { { { [path |-> q, isfile |-> TRUE, content |-> c[q]] : q \in S } :
                c \in [S -> BatchDocs] } :
            S \in {T \in SUBSET BatchPaths : Cardinality(T) <= MaxFiles} }

InitBatch ==
    /\ pc = "start"
    /\ mode \in {"cli", "gui", "folder"}
    /\ platform = "posix"
    /\ entries \in BatchFiles
    /\ scanned = <<>>
    /\ xmls = <<>> /\ i = 0 /\ records = <<>> /\ errors = <<>>
    /\ writes = 0 /\ table = <<>> /\ events = <<>>
    /\ GetIdle /\ ExIdle
    \* the worker starts in the window that _on_run has locked (line 282)
    /\ selected_files = <<>>
    /\ widget_state = IF mode = "gui" THEN _lock_ui(AllNormal, TRUE)
                      ELSE AllNormal
    /\ prog = ProgAsBuilt /\ after_queue = <<>> /\ finishing = 0

Event(op, idx, total) == [op |-> op, idx |-> idx, total |-> total]

\* gui.py _worker lines 347-348, the first half of the finally block, after
\* the updates the run has scheduled: the worker is counted as finishing
\* until FinallyRest.  main.py and parse_folder touch no widget.
WorkerLeaves(queue) ==
    IF mode = "gui"
    THEN /\ after_queue' = _set_progress(queue, 1, 1, t_Idle)
         /\ widget_state' = _lock_ui(widget_state, FALSE)
         /\ finishing' = finishing + 1
         /\ UNCHANGED <<selected_files, prog>>
    ELSE UNCHANGED guiVars

\* gui.py _worker lines 349-350, the second half of the finally block
FinallyRest ==
    /\ finishing > 0
    /\ after_queue' = _set_progress(after_queue, 1, 1, t_Idle)
    /\ widget_state' = _lock_ui(widget_state, FALSE)
    /\ finishing' = finishing - 1
    /\ UNCHANGED <<pc, selected_files, prog, getVars, exVars, batchVars,
                   scanVars>>

\* main.py parse_folder line 158, gui.py parse_folder line 111: the
\* candidates of a directory
StartCli ==
    /\ pc = "start" /\ mode \in {"cli", "folder"}
    /\ xmls' = iter_xml_files(entries, platform)
    /\ pc' = "loop"
    /\ UNCHANGED <<i, records, errors, writes, table, events, mode,
                   getVars, exVars, scanVars, guiVars>>

\* gui.py _worker lines 299-312: the candidates of the GUI
StartGui ==
    /\ pc = "start" /\ mode = "gui"
    /\ worker_files(entries, platform) # <<>>
    /\ xmls' = worker_files(entries, platform)
    /\ pc' = "loop"
    /\ UNCHANGED <<i, records, errors, writes, table, events, mode,
                   getVars, exVars, scanVars, guiVars>>

\* gui.py _worker lines 301-304: total == 0, return
StartGuiNoFiles ==
    /\ pc = "start" /\ mode = "gui"
    /\ worker_files(entries, platform) = <<>>
    /\ pc' = "no_files"
    /\ WorkerLeaves(_set_progress(after_queue, 0, 1, t_Idle))
    /\ UNCHANGED <<xmls, i, records, errors, writes, table, events, mode,
                   getVars, exVars, scanVars>>

\* faulty variants: the failed file is recorded too; the failed file is not named
RecordsAfterNoTest(recs, rec) == Append(recs, rec)
ErrorsAfterNoAppend(errs, rec, f) == errs

\* lines 165-168: if rec is None: errors.append(name) else: records.append(rec)
RecordsAfter(recs, rec) ==
    IF rec = Null THEN recs ELSE Append(recs, rec.v)

ErrorsAfter(errs, rec, f) ==
    IF rec = Null THEN Append(errs, Str(PathName(f.path))) ELSE errs

\* the history of one iteration: the progress callback is called first
\* (gui.py _worker line 313, gui.py parse_folder lines 117-118); main.py
\* parse_folder has no callback
IterEvents ==
    (IF mode \in {"gui", "folder"}
     THEN <<Event("progress", i + 1, Len(xmls))>> ELSE <<>>)
        \o <<Event("extract", i + 1, Len(xmls))>>

\* the update the worker's callback schedules in the iteration
Progressed ==
    IF mode = "gui"
    THEN on_progress(after_queue, i + 1, Len(xmls), PathName(xmls[i + 1].path))
    ELSE after_queue

\* one iteration whose extraction returns a record
IterRecord ==
    /\ pc = "loop" /\ i < Len(xmls)
    /\ parse_nfe_file(xmls[i + 1]).t = "rec"
    /\ records' = RecordsAfter(records, parse_nfe_file(xmls[i + 1]))
    /\ errors' = ErrorsAfter(errors, parse_nfe_file(xmls[i + 1]), xmls[i + 1])
    /\ i' = i + 1
    /\ events' = events \o IterEvents
    /\ after_queue' = Progressed
    /\ UNCHANGED <<pc, mode, xmls, writes, table, getVars, exVars, scanVars,
                   selected_files, widget_state, prog, finishing>>

\* one iteration whose extraction returns None
IterFailed ==
    /\ pc = "loop" /\ i < Len(xmls)
    /\ parse_nfe_file(xmls[i + 1]) = Null
    /\ records' = RecordsAfter(records, parse_nfe_file(xmls[i + 1]))
    /\ errors' = ErrorsAfter(errors, parse_nfe_file(xmls[i + 1]), xmls[i + 1])
    /\ i' = i + 1
    /\ events' = events \o IterEvents
    /\ after_queue' = Progressed
    /\ UNCHANGED <<pc, mode, xmls, writes, table, getVars, exVars, scanVars,
                   selected_files, widget_state, prog, finishing>>

\* one iteration whose extraction raises: the exception leaves the loop.
\* main.py and parse_folder have no handler (the process ends with a
\* traceback, the caller gets the exception); gui.py _worker catches it at
\* line 344, logs it and ends the run.
IterRaise ==
    /\ pc = "loop" /\ i < Len(xmls)
    /\ parse_nfe_file(xmls[i + 1]) = Raise
    /\ pc' = IF mode = "gui" THEN "failed" ELSE "crashed"
    /\ events' = events \o IterEvents
    /\ WorkerLeaves(Progressed)
    /\ UNCHANGED <<i, records, errors, mode, xmls, writes, table,
                   getVars, exVars, scanVars>>

\* gui.py parse_folder line 125: the loop has ended, the lists are returned
FolderReturn ==
    /\ pc = "loop" /\ i = Len(xmls) /\ mode = "folder"
    /\ pc' = "returned"
    /\ UNCHANGED <<getVars, exVars, batchVars, scanVars, guiVars>>

\* main.py lines 229-233, gui.py lines 320-322: no record, nothing to save
NothingToSave ==
    /\ pc = "loop" /\ i = Len(xmls) /\ mode \in {"cli", "gui"}
    /\ records = <<>>
    /\ pc' = "nothing"
    /\ WorkerLeaves(after_queue)
    /\ UNCHANGED <<i, records, errors, mode, xmls, writes, table, events,
                   getVars, exVars, scanVars>>

\* main.py lines 250-261, gui.py lines 329-341: the table is sorted and the
\* writer persists it
WriteOk ==
    /\ pc = "loop" /\ i = Len(xmls) /\ mode \in {"cli", "gui"}
    /\ records # <<>>
    /\ table' = SortValues(records)
    /\ writes' = writes + 1
    /\ events' = Append(events, Event("write", i, Len(xmls)))
    /\ pc' = "done"
    /\ WorkerLeaves(after_queue)
    /\ UNCHANGED <<i, records, errors, mode, xmls, getVars, exVars, scanVars>>

\* main.py lines 264-266, gui.py lines 337-345: the writer raises
WriteFail ==
    /\ pc = "loop" /\ i = Len(xmls) /\ mode \in {"cli", "gui"}
    /\ records # <<>>
    /\ table' = SortValues(records)
    /\ writes' = writes + 1
    /\ events' = Append(events, Event("write", i, Len(xmls)))
    /\ pc' = "write_failed"
    /\ WorkerLeaves(after_queue)
    /\ UNCHANGED <<i, records, errors, mode, xmls, getVars, exVars, scanVars>>

NextBatch ==
    \/ StartCli \/ StartGui \/ StartGuiNoFiles
    \/ IterRecord \/ IterFailed \/ IterRaise
    \/ FolderReturn \/ NothingToSave \/ WriteOk \/ WriteFail
    \/ FinallyRest

SpecBatch == InitBatch /\ [][NextBatch]_vars

\* the run has ended
RunEnded ==
    pc \in {"no_files", "nothing", "done", "write_failed", "crashed", "failed"}

----------------------------------------------------------------------------
(* C1, C2, C3, C9: the run *)

\* C1: no document makes the extraction raise, and every run that has
\* candidates attempts all of them: no single file aborts the scan.
C1_NoFileAbortsScan ==
    /\ pc \notin {"crashed", "failed"}
    /\ (RunEnded /\ pc # "no_files") => i = Len(xmls)

\* a document that is unparseable or has neither header shape
InvalidDoc(c) == c = Garbage \/ DocHeader(c) = Missing

\* an address block is well formed when it is absent, empty or a mapping
WellFormedBlock(inf, segs) ==
    \/ ValueAt(inf, segs) = Missing
    \/ ValueAt(inf, segs).t \in {"map", "null"}

\* a valid document: a header block in which every address block the
\* extraction reads is well formed (the issuer block is read when the
\* recipient block yields nothing)
ValidDoc(c) ==
    /\ ~InvalidDoc(c)
    /\ WellFormedBlock(DocHeader(c), <<k_dest, k_enderDest>>)
    /\ AllEmpty(BlockValues(DocHeader(c), <<k_dest, k_enderDest>>))
           => WellFormedBlock(DocHeader(c), <<k_emit, k_enderEmit>>)

IsInvalidFile(f) == InvalidDoc(f.content)
IsValidFile(f) == ValidDoc(f.content)

\* the base names of the files of a list
BaseNames(files) == [k \in 1..Len(files) |-> Str(PathName(files[k].path))]

\* C2: after every iteration len(records) + len(errors) is the number of
\* iterations done.  When every candidate is either invalid (unparseable or
\* without header shape) or valid, the run is not aborted, errors holds the
\* base names of the invalid candidates processed so far in processing order,
\* records holds one record per valid candidate processed so far in
\* processing order, and at the end of the loop there are exactly K failed
\* names and N - K records.
C2_BatchPartition ==
    pc # "start" =>
        LET N == Len(xmls)
            K == Cardinality({n \in 1..N : IsInvalidFile(xmls[n])})
            done == SubSeq(xmls, 1, i)
        IN  /\ Len(records) + Len(errors) = i
            /\ (\A n \in 1..N : IsInvalidFile(xmls[n]) \/ IsValidFile(xmls[n])) =>
                  /\ pc \notin {"crashed", "failed"}
                  /\ errors = BaseNames(SelectSeq(done, IsInvalidFile))
                  /\ [k \in 1..Len(records) |-> records[k].file_name]
                         = BaseNames(SelectSeq(done, IsValidFile))
                  /\ RunEnded => (i = N /\ Len(errors) = K /\ Len(records) = N - K)

\* C2 witness: three candidates, two of them invalid, the loop has ended
\* with two failed names and one record
C2_Witness ==
    /\ pc = "done"
    /\ Len(xmls) = 3
    /\ \A n \in 1..3 : IsInvalidFile(xmls[n]) \/ IsValidFile(xmls[n])
    /\ Cardinality({n \in 1..3 : IsInvalidFile(xmls[n])}) = 2
    /\ Len(errors) = 2
    /\ Len(records) = 1

\* the order C3 states: ascending by key with the empty key after every
\* other key, and by file_name among equal keys
ClaimedOrder(r, q) ==
    IF r.key = q.key THEN ~StrLess(q.file_name.v, r.file_name.v)
    ELSE IF r.key = EmptyStr THEN FALSE
    ELSE IF q.key = EmptyStr THEN TRUE
    ELSE StrLess(r.key.v, q.key.v)

\* C3: the table handed to the writer is ordered by (key, file_name)
\* ascending with the records of empty key after all others.
C3_EmptyKeysLast ==
    pc \in {"done", "write_failed"} =>
        \A a, b \in 1..Len(table) : a < b => ClaimedOrder(table[a], table[b])

\* what the writer gets instead: plain ascending order, the empty key first
C3_PlainStringOrder ==
    pc \in {"done", "write_failed"} =>
        /\ Len(table) = Len(records)
        /\ \A a, b \in 1..Len(table) :
               a < b =>
                   \/ StrLess(table[a].key.v, table[b].key.v)
                   \/ /\ table[a].key = table[b].key
                      /\ ~StrLess(table[b].file_name.v, table[a].file_name.v)

\* C9: the writer is called at most once, only after the last candidate's
\* extraction, never between two extractions, not at all when there is no
\* record, and exactly once in a run that has produced a record.
C9_WriterOnceAfterLoop ==
    /\ writes <= 1
    /\ writes = 1 => (i = Len(xmls) /\ pc \in {"done", "write_failed"})
    /\ \A a, b \in 1..Len(events) :
           (events[a].op = "write" /\ events[b].op = "extract") => b < a
    /\ records = <<>> => writes = 0
    /\ (RunEnded /\ records # <<>>) => writes = 1

\* the part of C9 that holds: at most one call, after the last extraction,
\* none without a record, and one in every run whose loop has ended with a
\* record
C9_WriterAfterCompletedLoop ==
    /\ writes <= 1
    /\ writes = 1 => (i = Len(xmls) /\ pc \in {"done", "write_failed"})
    /\ \A a, b \in 1..Len(events) :
           (events[a].op = "write" /\ events[b].op = "extract") => b < a
    /\ records = <<>> => writes = 0
    /\ (RunEnded /\ records # <<>> /\ i = Len(xmls)) => writes = 1

(***************************************************************************)
(* SpecGui: a session of the window.  The main loop runs the handlers      *)
(* _choose_files, _clear_files and _on_run, each from its button when the  *)
(* button is not disabled, and the updates scheduled with after(0, ...);   *)
(* the worker thread started by _on_run runs beside it, one step at a      *)
(* time.  The log box, the folder and the output entry are left out.       *)
(***************************************************************************)
MaxPick == 2         \* paths returned by one file dialog
MaxSelected == 2     \* paths in the list of selected files
MaxPending == 0      \* scheduled updates not yet run when a button is pressed
MaxWorkers == 2      \* worker threads alive at once

\* the files the dialog can return and what the file system holds for them
g_garbage == << <<"d">>, n_a_xml >>
g_valid == << <<"d">>, n_b_xml >>
g_raising == << <<"d">>, <<"e">>, n_a_xml >>
g_gone == << <<"d">>, <<"e">>, n_b_xml >>

GuiPaths == {g_garbage, g_valid, g_raising, g_gone}

GuiContent(p) ==
    IF p = g_garbage THEN Garbage
    ELSE IF p = g_valid
         THEN Bare(Inf(Str(<<"N", "F", "e", "1">>), Str(<<"e", "N">>), Absent,
                       Absent, Absent))
    ELSE Bare(Inf(Str(<<"N", "F", "e", "1">>), Absent, Absent, Absent,
                  Str(<<"d", "t">>)))

\* a path of the list as the worker finds it: p.exists() and p.is_file()
FileAt(p) ==
    [path |-> p, isfile |-> p # g_gone,
     content |-> IF p = g_gone THEN Null ELSE GuiContent(p)]

\* Path.__eq__: the parts compared, case folded on Windows
PathEq(p, q, os) ==
    /\ Len(p) = Len(q)
    /\ \A n \in 1..Len(p) : FoldCase(p[n], os) = FoldCase(q[n], os)

\* p in list
InList(p, list, os) == \E n \in 1..Len(list) : PathEq(p, list[n], os)

\* faulty variant: every chosen path is appended
AccumulateAll(list, new_files, os) == list \o new_files

\* lines 236-238: for p in new_files: if p not in selected: selected.append(p)
RECURSIVE AccumulateUnique(_, _, _)
AccumulateUnique(list, new_files, os) ==
    IF new_files = <<>> THEN list
    ELSE AccumulateUnique(IF InList(Head(new_files), list, os) THEN list
                          ELSE Append(list, Head(new_files)),
                          Tail(new_files), os)

\* a press of the button w runs its command: the button is not disabled
\* and the main loop has the scheduled updates behind it
Pressed(w) == Enabled(w) /\ Len(after_queue) <= MaxPending

\* a worker is inside its try block
WorkerActive == pc \in {"start", "loop"}

\* the worker threads alive
Workers == finishing + (IF WorkerActive THEN 1 ELSE 0)

InitGui ==
    /\ pc = "idle"
    /\ platform = "posix" /\ entries = {} /\ scanned = <<>>
    /\ GetIdle /\ ExIdle /\ BatchIdle /\ GuiIdle

\* the button "Select XML files": the dialog returns the paths picked, none
\* when it is cancelled
_choose_files(picked) ==
    /\ Pressed("btn_select")
    /\ selected_files' = AccumulateUnique(selected_files, picked, platform)
    /\ Len(selected_files') <= MaxSelected
    /\ UNCHANGED <<pc, widget_state, prog, after_queue, finishing,
                   getVars, exVars, batchVars, scanVars>>

\* the button "Clear list"
_clear_files ==
    /\ Pressed("btn_clear")
    /\ selected_files' = <<>>
    /\ UNCHANGED <<pc, widget_state, prog, after_queue, finishing,
                   getVars, exVars, batchVars, scanVars>>

\* the button "Convert".  With an empty list the handler opens the file
\* dialog itself (picked) and returns when the list stays empty; it returns
\* when the output folder cannot be made (out_ok false); else it locks the
\* window and starts a worker on a copy of the list.  The model follows one
\* worker inside its try block at a time.
_on_run(picked, out_ok) ==
    /\ Pressed("btn_run")
    /\ ~WorkerActive /\ Workers < MaxWorkers
    /\ selected_files # <<>> => picked = <<>>
    /\ selected_files' = AccumulateUnique(selected_files, picked, platform)
    /\ Len(selected_files') <= MaxSelected
    /\ IF selected_files' = <<>> \/ ~out_ok
       THEN UNCHANGED <<pc, widget_state, prog, after_queue, finishing,
                        getVars, exVars, batchVars, scanVars>>
       ELSE /\ widget_state' = _lock_ui(widget_state, TRUE)
            /\ entries' = { FileAt(selected_files'[n]) :
                                n \in 1..Len(selected_files') }
            /\ pc' = "start"
            /\ mode' = "gui"
            /\ xmls' = <<>> /\ i' = 0 /\ records' = <<>> /\ errors' = <<>>
            /\ writes' = 0 /\ table' = <<>> /\ events' = <<>>
            /\ UNCHANGED <<platform, scanned, prog, after_queue, finishing,
                           getVars, exVars>>

\* the main loop runs the oldest scheduled update (_update of _set_progress)
MainLoopUpdate ==
    /\ after_queue # <<>>
    /\ prog' = Head(after_queue)
    /\ after_queue' = Tail(after_queue)
    /\ UNCHANGED <<pc, selected_files, widget_state, finishing,
                   getVars, exVars, batchVars, scanVars>>

NextGui ==
    \/ \E picked \in SeqsUpTo(GuiPaths, MaxPick) : _choose_files(picked)
    \/ _clear_files
    \/ \E picked \in SeqsUpTo(GuiPaths, MaxPick), out_ok \in BOOLEAN :
           _on_run(picked, out_ok)
    \/ MainLoopUpdate
    \/ StartGui \/ StartGuiNoFiles
    \/ IterRecord \/ IterFailed \/ IterRaise
    \/ NothingToSave \/ WriteOk \/ WriteFail
    \/ FinallyRest

SpecGui == InitGui /\ [][NextGui]_vars

----------------------------------------------------------------------------
(* C11: the list of selected files and the order of the run *)

\* the list holds no path twice
NoPathTwice(list, os) ==
    \A a, b \in 1..Len(list) : a # b => ~PathEq(list[a], list[b], os)

IsPrefix(s, t) == Len(s) <= Len(t) /\ SubSeq(t, 1, Len(s)) = s

\* the candidates of the worker ascend strictly, are the files of the list
\* that exist, and are what the scan of a directory holding the same files
\* gives
SortedLikeDirectoryMode ==
    /\ \A a, b \in 1..Len(xmls) :
           a < b => PartsLess(xmls[a].path, xmls[b].path, platform)
    /\ { xmls[n] : n \in 1..Len(xmls) } = { e \in entries : e.isfile }
    /\ xmls = iter_xml_files(entries, platform)

\* a selection or a clear leaves the list empty or with the paths it had in
\* the places they had, new paths after them; a run starts on the paths of
\* the list; and the loop takes the candidates in the order of xmls
SelectionStep ==
    /\ selected_files' = <<>> \/ IsPrefix(selected_files, selected_files')
    /\ (pc # "start" /\ pc' = "start") =>
           { e.path : e \in entries' }
               = { selected_files'[n] : n \in 1..Len(selected_files') }
    /\ (pc = "loop" /\ i' # i) => (i' = i + 1 /\ xmls' = xmls)

\* C11: after any sequence of selections and clears the list of selected
\* files holds no path twice and keeps the paths in the order of their first
\* selection; the worker extracts the existing files of the list in
\* ascending order of path, the order directory mode gives the same files.
C11_SelectionOrder ==
    /\ [](/\ NoPathTwice(selected_files, platform)
          /\ (mode = "gui" /\ pc \notin {"idle", "start", "no_files"})
                 => SortedLikeDirectoryMode)
    /\ [][SelectionStep]_vars

\* C11 witness: b.xml was selected before a.xml and the run has extracted
\* a.xml first
C11_Witness ==
    /\ pc = "done"
    /\ selected_files = <<g_valid, g_garbage>>
    /\ Len(xmls) = 2 /\ i = 2
    /\ xmls[1].path = g_garbage /\ xmls[2].path = g_valid
    /\ errors = <<Str(n_a_xml)>>

----------------------------------------------------------------------------
(* C12: the progress callback *)

IsProgress(e) == e.op = "progress"
IsExtract(e) == e.op = "extract"

\* the calls of the callback are numbered 1, 2, ... with total = N on each,
\* and the call for a candidate comes before its extraction and after the
\* extraction of the candidate before it
ProgressInOrder ==
    LET calls == SelectSeq(events, IsProgress)
    IN  /\ \A k \in 1..Len(calls) :
               calls[k].idx = k /\ calls[k].total = Len(xmls)
        /\ \A a, b \in 1..Len(events) :
               (IsProgress(events[a]) /\ IsExtract(events[b])) =>
                   (a < b <=> events[a].idx <= events[b].idx)
        /\ \A b \in 1..Len(events) :
               IsExtract(events[b]) =>
                   \E a \in 1..(b - 1) :
                       IsProgress(events[a]) /\ events[a].idx = events[b].idx

\* C12: in a batch over N candidates the progress callback is called exactly
\* N times, once per candidate in processing order with current = 1..N and
\* total = N, each call before the candidate's extraction and after the
\* previous candidate's; with no candidate it is never called.
C12_ProgressOncePerCandidate ==
    (mode \in {"gui", "folder"} /\ pc # "start") =>
        /\ ProgressInOrder
        /\ Len(xmls) = 0 => SelectSeq(events, IsProgress) = <<>>
        /\ pc # "loop" => Len(SelectSeq(events, IsProgress)) = Len(xmls)

\* the part of C12 that holds: one call before every extraction attempted,
\* in order, and N calls in every batch whose loop has ended
C12_ProgressBeforeEachExtraction ==
    (mode \in {"gui", "folder"} /\ pc # "start") =>
        /\ ProgressInOrder
        /\ Len(xmls) = 0 => SelectSeq(events, IsProgress) = <<>>
        /\ Len(SelectSeq(events, IsProgress)) = Len(SelectSeq(events, IsExtract))
        /\ i = Len(xmls) => Len(SelectSeq(events, IsProgress)) = Len(xmls)

----------------------------------------------------------------------------
(* C13: the lock of the window *)

\* the widgets _lock_ui disables: all that have a state but the log box
Controls == StatefulWidgets \ {"txt"}

ControlsAre(state) == \A w \in Controls : widget_state[w] = state

\* the ways the worker ends: no existing file, no record, the writer failed,
\* another exception, success
WorkerExits == {"no_files", "nothing", "write_failed", "failed", "done"}

\* the label shows Idle once the main loop has run the scheduled updates
LabelResetToIdle ==
    IF after_queue = <<>> THEN prog.text = t_Idle
    ELSE after_queue[Len(after_queue)].text = t_Idle

\* C13: the controls are disabled while a worker runs, every way the worker
\* can end enables them again and resets the progress label to Idle, and no
\* second worker is started while one is running.
C13_LockedWhileWorkerRuns ==
    /\ WorkerActive => ControlsAre("disabled")
    /\ Workers <= 1
    /\ (pc \in WorkerExits /\ Workers = 0) =>
           (ControlsAre("normal") /\ LabelResetToIdle)

\* the part of C13 that holds: after each of the worker's exits the controls
\* are enabled and the label is reset to Idle
C13_EveryExitUnlocks ==
    pc \in WorkerExits => (ControlsAre("normal") /\ LabelResetToIdle)

\* a worker runs in a window that another worker's finally block has unlocked
C13_UnlockedWhileRunning ==
    /\ pc = "loop" /\ i = 1 /\ Len(xmls) = 2
    /\ finishing = 0
    /\ ControlsAre("normal")

====
